---- MODULE Spec2Model ----
(***************************************************************************)
(* TMapp: master-password authentication, session key handling and the     *)
(* AES-GCM field encryption service.                                       *)
(*                                                                         *)
(* Strings are tuples of one-character strings, so that length, character  *)
(* classes and substrings are computed as the code computes them.          *)
(* An optional value (Python None / a value) is <<>> / <<v>>.              *)
(***************************************************************************)
EXTENDS Integers, Sequences, FiniteSets, TLC

(* ------------------------------ bounds -------------------------------- *)
\* the clock stops advancing at MaxTime seconds
MaxTime == 700
\* the failed-attempt counter is not driven past MaxFailed
MaxFailed == 6
\* number of distinct values the salt generator can return
NumSalts == 2
\* number of distinct values the nonce generator can return
NumNonces == 2
\* passwords offered to setup are built from at most MaxWords words
MaxWords == 3
\* number of notebook ids
MaxNotebooks == 2
\* number of note ids
MaxNotes == 2
\* the clock of the note store stops here
MaxNoteTime == 150
\* contents under test have at most MaxContentLen characters
MaxContentLen == 2

(* ------------------------- program constants -------------------------- *)
MAX_ATTEMPTS == 5
LOCKOUT_DURATION == 300
SALT_SIZE == 16
NONCE_SIZE == 12
TAG_SIZE == 16
MIN_PASSWORD_LENGTH == 12
MAX_PASSWORD_LENGTH == 128

None == <<>>
Some(v) == <<v>>
Get(o) == o[1]

(* ----------------------------- characters ----------------------------- *)
UpperSeq == <<"A","B","C","D","E","F","G","H","I","J","K","L","M",
              "N","O","P","Q","R","S","T","U","V","W","X","Y","Z">>
LowerSeq == <<"a","b","c","d","e","f","g","h","i","j","k","l","m",
              "n","o","p","q","r","s","t","u","v","w","x","y","z">>
DigitSeq == <<"0","1","2","3","4","5","6","7","8","9">>
\* the 29 characters of the special-character string of validate_password_strength;
\* the lexer accepts no grave accent in a string, so that character is spelled out
SpecialSeq == <<"!","@","#","$","%","^","&","*","(",")","_","+","-","=","[","]",
                "{","}","|",";",":",",",".","<",">","?","/","~","GRAVE">>

Range(s) == {s[i] : i \in 1..Len(s)}

UpperChars == Range(UpperSeq)
LowerChars == Range(LowerSeq)
DigitChars == Range(DigitSeq)
SpecialChars == Range(SpecialSeq)

isupper(c) == c \in UpperChars
islower(c) == c \in LowerChars
isdigit(c) == c \in DigitChars
is_special(c) == c \in SpecialChars

\* str.lower() on one character
lower_char(c) ==
    IF isupper(c) THEN LowerSeq[CHOOSE i \in 1..Len(UpperSeq) : UpperSeq[i] = c]
    ELSE c

\* str.lower()
lower(s) == [i \in 1..Len(s) |-> lower_char(s[i])]

\* pattern in s
Contains(s, pattern) ==
    \E i \in 1..(Len(s) - Len(pattern) + 1) :
        SubSeq(s, i, i + Len(pattern) - 1) = pattern

\* weak_patterns = ['password', '12345', 'qwerty', 'admin', 'letmein']
weak_patterns ==
    << <<"p","a","s","s","w","o","r","d">>,
       <<"1","2","3","4","5">>,
       <<"q","w","e","r","t","y">>,
       <<"a","d","m","i","n">>,
       <<"l","e","t","m","e","i","n">> >>

(* ------------------- password strength validation --------------------- *)
has_upper(password) == \E i \in 1..Len(password) : isupper(password[i])
has_lower(password) == \E i \in 1..Len(password) : islower(password[i])
has_digit(password) == \E i \in 1..Len(password) : isdigit(password[i])
has_special(password) == \E i \in 1..Len(password) : is_special(password[i])

has_weak_pattern(password) ==
    \E k \in 1..Len(weak_patterns) : Contains(lower(password), weak_patterns[k])

too_short_m(password) == Len(password) < MIN_PASSWORD_LENGTH - 1
too_short(password) == Len(password) < MIN_PASSWORD_LENGTH

too_long(password) == Len(password) > MAX_PASSWORD_LENGTH

\* AuthenticationManager.validate_password_strength: the first failing check
\* decides the message
validate_password_strength(password) ==
    IF too_short(password) THEN [valid |-> FALSE, message |-> "too short"]
    ELSE IF too_long(password) THEN [valid |-> FALSE, message |-> "too long"]
    ELSE IF ~(has_upper(password) /\ has_lower(password)
              /\ has_digit(password) /\ has_special(password))
         THEN [valid |-> FALSE, message |-> "must contain"]
    ELSE IF has_weak_pattern(password)
         THEN [valid |-> FALSE, message |-> "weak pattern"]
    ELSE [valid |-> TRUE, message |-> "Password meets requirements"]


(* ------------------------------ inputs -------------------------------- *)
\* four-character words from which candidate passwords are assembled
Words ==
    { <<"C","o","r","7">>, <<"-","H","s","!">>, <<"a","D","m","I">>,
      <<"N","1","2","3">>, <<"4","5","z","Z">>, <<"b","b","b","b">>,
      <<"x","9","_","#">> }

PadBase == <<"C","o","r","7","-","H","s","!">>
\* a password of exactly n characters holding every character class
Pad(n) == [i \in 1..n |-> PadBase[((i - 1) % Len(PadBase)) + 1]]

WordLen == Len(PadBase) \div 2
\* the concatenation of the k words f[1] .. f[k]
Flatten(f, k) ==
    [i \in 1..(WordLen * k) |-> f[((i - 1) \div WordLen) + 1][((i - 1) % WordLen) + 1]]

\* every password the first-run setup is tried on: all concatenations of at
\* most MaxWords words, and the lengths around the two length limits
PasswordInputs ==
    UNION { {Flatten(f, j) : f \in [1..j -> Words]} : j \in 0..MaxWords }
    \cup { Pad(MIN_PASSWORD_LENGTH - 1), Pad(MIN_PASSWORD_LENGTH),
           Pad(MAX_PASSWORD_LENGTH), Pad(MAX_PASSWORD_LENGTH + 1) }

\* passwords typed into the wizard and the dialog: none, two strong ones, and one
\* that meets the five character requirements but holds a denylisted substring
PwEmpty == <<>>
PwCorrect == Pad(MIN_PASSWORD_LENGTH)
PwOther == <<"-","H","s","!","C","o","r","7","x","9","_","#">>
PwWeak == <<"a","D","m","I","N","1","2","3","-","H","s","!">>
SessionPasswords == {PwEmpty, PwCorrect, PwOther, PwWeak}

\* values secrets.token_bytes(SALT_SIZE) / os.urandom can return
Salts == 1..NumSalts
\* values secrets.token_bytes(NONCE_SIZE) can return
Nonces == 1..NumNonces

\* passwords handed to the methods of the authentication manager and of the
\* encryption service
ApiPasswords == {PwEmpty, PwCorrect, PwOther}

\* plaintexts: the empty string, a single space, a word, and a string holding a
\* lone surrogate, which str.encode('utf-8') refuses
Plaintexts == {<<>>, <<" ">>, <<"h","i">>, <<"SURROGATE">>}

\* lengths of byte strings too short to be an envelope (b"invaliddata" has 11)
ShortLengths == {0, Len(<<"i","n","v","a","l","i","d","d","a","t","a">>),
                 SALT_SIZE + NONCE_SIZE + TAG_SIZE - 1}

(* ------------------------------- state -------------------------------- *)
VARIABLES
    now,               \* time.time(), in seconds
    auth_file,         \* auth.json of core/auth_manager.py: None or [salt]
    failed_attempts,   \* AuthenticationManager.failed_attempts
    lockout_until,     \* AuthenticationManager.lockout_until: None or a time
    encryption_key,    \* AuthenticationManager.encryption_key: None or a key
    setupPassword,     \* history: the password of the last accepted setup
    streak,            \* history: consecutive counted failures of verify
    lastFailAt,        \* history: time of the latest counted failure
    cached_key,        \* EncryptionService._cached_key: None or a key
    cached_salt,       \* EncryptionService._cached_salt: None or a salt
    blob,              \* the envelope the last successful encrypt returned
    keyless,           \* history: no key cached since start or the last clear
    phase,             \* TMApp.run: "start", "auth", "main", "closed", "exited"
    is_authenticated,  \* TMApp.is_authenticated
    is_locked,         \* MainWindow.is_locked
    wiped,             \* history: locked or closed, and no verify succeeded since
    candidate,         \* the input under test: a password, or a note content
    current_note,      \* a Note object of models/note.py: content and metadata
    legacy_auth_file,        \* auth.json of core/auth.py: None or [password_hash, salt]
    legacy_failed_attempts,  \* core/auth.py AuthenticationManager.failed_attempts
    legacy_lockout_until,    \* core/auth.py AuthenticationManager.lockout_until
    notebooks,         \* table notebooks: id -> [name, is_default]
    notes,             \* table notes: id -> the stored row
    ret                \* the last call and what it returned or raised

authVars == <<auth_file, failed_attempts, lockout_until, encryption_key,
              setupPassword, streak, lastFailAt>>
encVars == <<cached_key, cached_salt, blob, keyless>>
appVars == <<phase, is_authenticated, is_locked, wiped>>
legacyVars == <<legacy_auth_file, legacy_failed_attempts, legacy_lockout_until>>
storeVars == <<notebooks, notes>>
inputVars == <<candidate, current_note>>
sideVars == <<inputVars, legacyVars, storeVars>>
vars == <<now, authVars, encVars, appVars, sideVars, ret>>

(* --------------------------- key derivation --------------------------- *)
\* Argon2id(password, salt): deterministic, and distinct inputs give distinct keys
Argon2id(password, salt) == [pw |-> password, salt |-> salt]

derive_key_fresh_salt(password, salt, rnd) ==
    IF password = <<>> THEN [ok |-> FALSE, error |-> "Password cannot be empty"]
    ELSE [ok |-> TRUE, key |-> Argon2id(password, rnd), salt |-> rnd]
\* EncryptionService.derive_key(password, salt): rnd is what the salt
\* generator returns when no salt is given; every salt of Salts has SALT_SIZE bytes
derive_key(password, salt, rnd) ==
    IF password = <<>> THEN [ok |-> FALSE, error |-> "Password cannot be empty"]
    ELSE LET s == IF salt = None THEN rnd ELSE Get(salt)
         IN  [ok |-> TRUE, key |-> Argon2id(password, s), salt |-> s]

(* ----------------- core/auth_manager.py AuthenticationManager --------- *)
is_first_run == auth_file = None

is_locked_out_never == FALSE
is_locked_out_le ==
    IF lockout_until = None THEN FALSE ELSE now <= Get(lockout_until)
is_locked_out ==
    IF lockout_until = None THEN FALSE ELSE now < Get(lockout_until)

get_lockout_remaining == IF ~is_locked_out THEN 0 ELSE Get(lockout_until) - now

\* trigger_lockout: the new value of lockout_until
trigger_lockout == Some(now + LOCKOUT_DURATION)

get_stored_salt == IF auth_file = None THEN None ELSE Some(Get(auth_file).salt)

\* setup_master_password: changes auth.json only
setup_master_password(password, rnd) ==
    LET v == validate_password_strength(password)
        d == derive_key(password, None, rnd)
    IN  /\ IF ~v.valid
           THEN /\ ret' = [op |-> "setup", pw |-> password, ok |-> FALSE,
                           message |-> v.message]
                /\ UNCHANGED <<auth_file, setupPassword>>
           ELSE /\ auth_file' = Some([salt |-> d.salt])
                /\ setupPassword' = Some(password)
                /\ ret' = [op |-> "setup", pw |-> password, ok |-> TRUE,
                           message |-> "Password setup successful"]
        /\ UNCHANGED <<failed_attempts, lockout_until, encryption_key,
                       streak, lastFailAt>>

\* what verify returns or raises, with the state it started from
VerifyRet(password, outcome, key) ==
    [op |-> "verify", pw |-> password, outcome |-> outcome, key |-> key,
     locked |-> is_locked_out, failedBefore |-> failed_attempts,
     streakBefore |-> streak, lastFailBefore |-> lastFailAt,
     lockoutBefore |-> lockout_until, keyBefore |-> encryption_key,
     configured |-> auth_file /= None]

verify_master_password_restart(password) ==
    IF is_locked_out
    THEN /\ ret' = VerifyRet(password, "AccountLocked", None)
         /\ lockout_until' = trigger_lockout
         /\ UNCHANGED <<auth_file, failed_attempts, encryption_key, setupPassword,
                         streak, lastFailAt>>
    ELSE IF auth_file = None
    THEN /\ ret' = VerifyRet(password, "AuthenticationError", None)
         /\ UNCHANGED authVars
    ELSE LET d == derive_key(password, get_stored_salt, 0)
         IN  IF d.ok
             THEN /\ failed_attempts' = 0
                  /\ encryption_key' = Some(d.key)
                  /\ streak' = 0
                  /\ ret' = VerifyRet(password, "Success", Some(d.key))
                  /\ UNCHANGED <<auth_file, lockout_until, setupPassword, lastFailAt>>
             ELSE /\ failed_attempts < MaxFailed
                  /\ failed_attempts' = failed_attempts + 1
                  /\ streak' = streak + 1
                  /\ lastFailAt' = now
                  /\ IF failed_attempts + 1 >= MAX_ATTEMPTS
                     THEN /\ lockout_until' = trigger_lockout
                          /\ ret' = VerifyRet(password, "AccountLocked", None)
                     ELSE /\ lockout_until' = lockout_until
                          /\ ret' = VerifyRet(password, "AuthenticationError", None)
                  /\ UNCHANGED <<auth_file, encryption_key, setupPassword>>
verify_master_password(password) ==
    IF is_locked_out
    THEN /\ ret' = VerifyRet(password, "AccountLocked", None)
         /\ UNCHANGED authVars
    ELSE IF auth_file = None
    THEN /\ ret' = VerifyRet(password, "AuthenticationError", None)
         /\ UNCHANGED authVars
    ELSE LET d == derive_key(password, get_stored_salt, 0)
         IN  IF d.ok
             THEN /\ failed_attempts' = 0
                  /\ encryption_key' = Some(d.key)
                  /\ streak' = 0
                  /\ ret' = VerifyRet(password, "Success", Some(d.key))
                  /\ UNCHANGED <<auth_file, lockout_until, setupPassword, lastFailAt>>
             ELSE /\ failed_attempts < MaxFailed
                  /\ failed_attempts' = failed_attempts + 1
                  /\ streak' = streak + 1
                  /\ lastFailAt' = now
                  /\ IF failed_attempts + 1 >= MAX_ATTEMPTS
                     THEN /\ lockout_until' = trigger_lockout
                          /\ ret' = VerifyRet(password, "AccountLocked", None)
                     ELSE /\ lockout_until' = lockout_until
                          /\ ret' = VerifyRet(password, "AuthenticationError", None)
                  /\ UNCHANGED <<auth_file, encryption_key, setupPassword>>

(* -------------------- core/auth.py AuthenticationManager -------------- *)
\* the manager of the PyQt5 front end under gui/, which main.py does not start
\* the special characters of _validate_password_strength: the first 26 of the 29
LegacySpecialChars == Range(SubSeq(SpecialSeq, 1, Len(SpecialSeq) - 3))

\* _validate_password_strength: no upper limit on the length, no denylist
legacy_validate_password_strength(password) ==
    IF Len(password) < MIN_PASSWORD_LENGTH
    THEN [valid |-> FALSE, message |-> "Password must be at least 12 characters"]
    ELSE IF ~(/\ has_upper(password)
              /\ has_lower(password)
              /\ has_digit(password)
              /\ \E i \in 1..Len(password) : password[i] \in LegacySpecialChars)
    THEN [valid |-> FALSE, message |-> "must contain"]
    ELSE [valid |-> TRUE, message |-> "Password meets requirements"]

\* _hash_password: PBKDF2-HMAC-SHA256, deterministic, distinct inputs give
\* distinct hashes
hash_password(password, salt) == [pw |-> password, salt |-> salt]

\* setup_password
legacy_setup_password(password, rnd) ==
    LET v == legacy_validate_password_strength(password)
    IN  /\ ret' = [op |-> "legacy_setup", pw |-> password, ok |-> v.valid,
                   message |-> v.message]
        /\ legacy_auth_file' =
               IF v.valid
               THEN Some([password_hash |-> hash_password(password, rnd), salt |-> rnd])
               ELSE legacy_auth_file
        /\ UNCHANGED <<legacy_failed_attempts, legacy_lockout_until>>

\* what verify_password returns, with the state it started from
LegacyRet(password, ok, message) ==
    [op |-> "legacy_verify", pw |-> password, ok |-> ok, message |-> message,
     failedBefore |-> legacy_failed_attempts, lockoutBefore |-> legacy_lockout_until,
     stored |-> legacy_auth_file]

\* verify_password
legacy_verify_password(password) ==
    IF now < legacy_lockout_until
    THEN /\ ret' = LegacyRet(password, FALSE, "Account locked")
         /\ UNCHANGED legacyVars
    ELSE IF legacy_auth_file = None
    THEN /\ ret' = LegacyRet(password, FALSE, "No password configured")
         /\ UNCHANGED legacyVars
    ELSE LET stored == Get(legacy_auth_file)
         IN  IF hash_password(password, stored.salt) = stored.password_hash
             THEN /\ legacy_failed_attempts' = 0
                  /\ ret' = LegacyRet(password, TRUE, "Authentication successful")
                  /\ UNCHANGED <<legacy_auth_file, legacy_lockout_until>>
             ELSE /\ legacy_failed_attempts < MaxFailed
                  /\ legacy_failed_attempts' = legacy_failed_attempts + 1
                  /\ IF legacy_failed_attempts + 1 >= MAX_ATTEMPTS
                     THEN /\ legacy_lockout_until' = now + LOCKOUT_DURATION
                          /\ ret' = LegacyRet(password, FALSE, "Too many failed attempts")
                     ELSE /\ legacy_lockout_until' = legacy_lockout_until
                          /\ ret' = LegacyRet(password, FALSE, "Incorrect password")
                  /\ UNCHANGED legacy_auth_file

(* ------------------ core/encryption.py EncryptionService -------------- *)
\* str.encode('utf-8') succeeds
Encodable(plaintext) == \A i \in 1..Len(plaintext) : plaintext[i] /= "SURROGATE"

\* len(salt + nonce + ciphertext): every character of Plaintexts is one byte,
\* and AESGCM appends the tag
EnvelopeLen(plaintext) == SALT_SIZE + NONCE_SIZE + Len(plaintext) + TAG_SIZE

min_length == SALT_SIZE + NONCE_SIZE + TAG_SIZE

\* the salt encrypt writes into the envelope: the fresh salt of the derivation
\* in password mode, the cached salt in cached-key mode
envelope_salt_fresh(password, rndSalt) == rndSalt
envelope_salt(password, rndSalt) ==
    IF password /= <<>> THEN derive_key(password, None, rndSalt).salt
    ELSE Get(cached_salt)

\* EncryptionService.encrypt: the envelope returned, or the error raised;
\* rndSalt and rndNonce are what the generators return
encrypt_result(plaintext, password, rndSalt, rndNonce) ==
    IF plaintext = <<>> THEN [ok |-> FALSE, error |-> "Plaintext cannot be empty"]
    ELSE IF password = <<>> /\ (cached_key = None \/ cached_salt = None)
    THEN [ok |-> FALSE, error |-> "No password or cached key available"]
    ELSE LET key == IF password /= <<>>
                    THEN derive_key(password, None, rndSalt).key
                    ELSE Get(cached_key)
         IN  IF ~Encodable(plaintext)
             THEN [ok |-> FALSE, error |-> "Encryption failed"]
             ELSE [ok |-> TRUE,
                   env |-> [len |-> EnvelopeLen(plaintext),
                            salt |-> envelope_salt(password, rndSalt),
                            nonce |-> rndNonce, key |-> key, pt |-> plaintext]]

\* the key decrypt opens the envelope with: None when there is no password and
\* no cached key for the envelope's salt
decrypt_key_cached_first(data, password) ==
    IF cached_key /= None /\ cached_salt = Some(data.salt) THEN cached_key
    ELSE IF password /= <<>>
    THEN Some(derive_key(password, Some(data.salt), 0).key)
    ELSE None
decrypt_key(data, password) ==
    IF password /= <<>>
    THEN Some(derive_key(password, Some(data.salt), 0).key)
    ELSE IF cached_key /= None /\ cached_salt = Some(data.salt) THEN cached_key
    ELSE None

\* AESGCM(key).decrypt(nonce, ciphertext, None): the plaintext when the tag
\* verifies under key, InvalidTag otherwise
aesgcm_decrypt(key, data) ==
    IF key = data.key THEN [ok |-> TRUE, value |-> data.pt]
    ELSE [ok |-> FALSE, error |-> "Decryption failed: incorrect password or corrupted data"]

\* EncryptionService.decrypt: the plaintext returned, or the error raised
decrypt_result_unchecked(data, password) ==
    IF data.len = 0 THEN [ok |-> FALSE, error |-> "Encrypted data cannot be empty"]
    ELSE IF decrypt_key(data, password) = None
    THEN [ok |-> FALSE, error |-> "Decryption failed: No password or matching cached key"]
    ELSE aesgcm_decrypt(Get(decrypt_key(data, password)), data)
decrypt_result(data, password) ==
    IF data.len = 0 THEN [ok |-> FALSE, error |-> "Encrypted data cannot be empty"]
    ELSE IF data.len < min_length
    THEN [ok |-> FALSE, error |-> "Invalid encrypted data: too short"]
    ELSE IF decrypt_key(data, password) = None
    THEN [ok |-> FALSE, error |-> "Decryption failed: No password or matching cached key"]
    ELSE aesgcm_decrypt(Get(decrypt_key(data, password)), data)

encrypt(plaintext, password, rndSalt, rndNonce) ==
    LET r == encrypt_result(plaintext, password, rndSalt, rndNonce)
    IN  /\ ret' = [op |-> "encrypt", pt |-> plaintext, pw |-> password, ok |-> r.ok]
        /\ blob' = IF r.ok THEN Some(r.env) ELSE blob
        /\ UNCHANGED <<cached_key, cached_salt, keyless>>

decrypt(data, password) ==
    LET r == decrypt_result(data, password)
    IN  /\ ret' = [op |-> "decrypt", len |-> data.len, pw |-> password, ok |-> r.ok,
                   value |-> IF r.ok THEN Some(r.value) ELSE None,
                   error |-> IF r.ok THEN None ELSE Some(r.error)]
        /\ UNCHANGED encVars

cache_key(password, salt, rnd) ==
    LET d == derive_key(password, salt, rnd)
    IN  /\ ret' = [op |-> "cache_key", pw |-> password, ok |-> d.ok]
        /\ IF d.ok
           THEN /\ cached_key' = Some(d.key)
                /\ cached_salt' = Some(d.salt)
                /\ keyless' = FALSE
           ELSE UNCHANGED <<cached_key, cached_salt, keyless>>
        /\ UNCHANGED blob

clear_cached_key_skip ==
    /\ UNCHANGED <<cached_key, cached_salt>>
    /\ keyless' = TRUE
clear_cached_key ==
    /\ cached_key' = None
    /\ cached_salt' = None
    /\ keyless' = TRUE

(* ------------------------------- clock -------------------------------- *)
TickStep == LOCKOUT_DURATION \div 2
Tick ==
    /\ now + TickStep <= MaxTime
    /\ now' = now + TickStep
    /\ ret' = [op |-> "tick"]
    /\ UNCHANGED <<authVars, encVars, appVars, sideVars>>

(* ----------------- calls on the authentication manager ---------------- *)
SetupMasterPassword ==
    /\ \E password \in ApiPasswords, rnd \in Salts :
           setup_master_password(password, rnd)
    /\ UNCHANGED <<now, encVars, appVars, sideVars>>

VerifyMasterPassword ==
    /\ \E password \in ApiPasswords : verify_master_password(password)
    /\ UNCHANGED <<now, encVars, appVars, sideVars>>

\* the first-run setup, tried on every candidate password
FirstRunSetup ==
    /\ is_first_run
    /\ \E rnd \in Salts : setup_master_password(candidate, rnd)
    /\ UNCHANGED <<now, encVars, appVars, sideVars>>

\* the first-run setup of core/auth.py, tried on every candidate password
LegacyFirstRunSetup ==
    /\ legacy_auth_file = None
    /\ \E rnd \in Salts : legacy_setup_password(candidate, rnd)
    /\ UNCHANGED <<now, authVars, encVars, appVars, inputVars, storeVars>>

LegacySetupPassword ==
    /\ \E password \in ApiPasswords, rnd \in Salts : legacy_setup_password(password, rnd)
    /\ UNCHANGED <<now, authVars, encVars, appVars, inputVars, storeVars>>

LegacyVerifyPassword ==
    /\ \E password \in ApiPasswords : legacy_verify_password(password)
    /\ UNCHANGED <<now, authVars, encVars, appVars, inputVars, storeVars>>

(* ------------------- calls on the encryption service ------------------ *)
\* n bytes that no encrypt call produced: the slices decrypt would take from
\* them are a salt, a nonce and a ciphertext whose tag verifies under no key
short_data(n, salt) ==
    [len |-> n, salt |-> salt, nonce |-> 0,
     key |-> [pw |-> <<>>, salt |-> 0], pt |-> <<>>]

CacheKey ==
    /\ \E password \in ApiPasswords, salt \in {None} \cup {Some(x) : x \in Salts},
          rnd \in Salts :
           cache_key(password, salt, rnd)
    /\ UNCHANGED <<now, authVars, appVars, sideVars>>

ClearCachedKey ==
    /\ clear_cached_key
    /\ ret' = [op |-> "clear_cached_key"]
    /\ UNCHANGED <<blob, now, authVars, appVars, sideVars>>

Encrypt ==
    /\ \E plaintext \in Plaintexts, password \in ApiPasswords,
          rndSalt \in Salts, rndNonce \in Nonces :
           encrypt(plaintext, password, rndSalt, rndNonce)
    /\ UNCHANGED <<now, authVars, appVars, sideVars>>

Decrypt ==
    /\ blob /= None
    /\ \E password \in ApiPasswords : decrypt(Get(blob), password)
    /\ UNCHANGED <<now, authVars, appVars, sideVars>>

DecryptShort ==
    /\ \E n \in ShortLengths, salt \in Salts, password \in ApiPasswords :
           decrypt(short_data(n, salt), password)
    /\ UNCHANGED <<now, authVars, appVars, sideVars>>

(* ------------------------- the application ---------------------------- *)
\* FirstRunWizard._validate_password / _on_continue: the wizard lets the user
\* continue with a password that meets its five requirements
wizard_password_valid(password) ==
    /\ Len(password) >= MIN_PASSWORD_LENGTH
    /\ has_upper(password)
    /\ has_lower(password)
    /\ has_digit(password)
    /\ has_special(password)

\* TMApp.run on a first run: the wizard, then setup_master_password; a failed
\* setup ends the run, a successful one opens the authentication dialog
RunFirstRun ==
    /\ phase = "start"
    /\ is_first_run
    /\ \E password \in SessionPasswords, rnd \in Salts :
           /\ wizard_password_valid(password)
           /\ setup_master_password(password, rnd)
    /\ phase' = IF ret'.ok THEN "auth" ELSE "exited"
    /\ UNCHANGED <<now, encVars, is_authenticated, is_locked, wiped, sideVars>>

\* TMApp.run when auth.json exists: the authentication dialog at once
RunReturning ==
    /\ phase = "start"
    /\ ~is_first_run
    /\ phase' = "auth"
    /\ ret' = [op |-> "run"]
    /\ UNCHANGED <<now, authVars, encVars, is_authenticated, is_locked, wiped, sideVars>>

\* TMApp._show_authentication_dialog.on_auth_success
on_auth_success(key) ==
    /\ is_authenticated' = TRUE
    /\ cached_key' = Some(key)
    /\ cached_salt' = get_stored_salt
    /\ keyless' = FALSE

\* AuthenticationDialog.attempt_login; on success the dialog is accepted and
\* TMApp.run shows the main window, unlocked
AttemptLogin ==
    /\ phase = "auth"
    /\ \E password \in SessionPasswords :
           IF password = <<>>
           THEN /\ ret' = [op |-> "attempt_login", error |-> "Please enter your password"]
                /\ UNCHANGED <<authVars, encVars, appVars>>
           ELSE /\ verify_master_password(password)
                /\ IF ret'.outcome = "Success"
                   THEN /\ on_auth_success(Get(ret'.key))
                        /\ phase' = "main"
                        /\ is_locked' = FALSE
                        /\ wiped' = FALSE
                        /\ UNCHANGED blob
                   ELSE UNCHANGED <<encVars, appVars>>
    /\ UNCHANGED <<now, sideVars>>

\* the process ends: nothing held in memory survives, auth.json and the stored
\* envelope do; the next launch constructs TMApp anew
ProcessEnd ==
    /\ phase' = "start"
    /\ failed_attempts' = 0
    /\ lockout_until' = None
    /\ encryption_key' = None
    /\ streak' = 0
    /\ lastFailAt' = 0
    /\ cached_key' = None
    /\ cached_salt' = None
    /\ keyless' = TRUE
    /\ is_authenticated' = FALSE
    /\ is_locked' = FALSE
    /\ wiped' = FALSE
    /\ ret' = [op |-> "init"]
    /\ UNCHANGED <<now, auth_file, setupPassword, blob, sideVars>>

\* a run that returned (setup failed, or the window was closed), relaunched
Relaunch ==
    /\ phase \in {"exited", "closed"}
    /\ ProcessEnd

\* AuthenticationDialog.exit_application, and the next launch
ExitApplication ==
    /\ phase = "auth"
    /\ ProcessEnd

\* str.strip(): leading and trailing whitespace removed
Whitespace == {" ", "\t", "\n", "\r"}
lstrip(s) ==
    LET blank == {i \in 1..Len(s) : \A j \in 1..i : s[j] \in Whitespace}
    IN  SubSeq(s, Cardinality(blank) + 1, Len(s))
rstrip(s) ==
    LET blank == {i \in 1..Len(s) : \A j \in i..Len(s) : s[j] \in Whitespace}
    IN  SubSeq(s, 1, Len(s) - Cardinality(blank))
strip(s) == rstrip(lstrip(s))

\* NoteController.update_note: note.content if note.content.strip() else " "
content_to_encrypt(content) ==
    IF strip(content) = <<>> THEN <<" ">> ELSE content

\* MainWindow._save_current_note, run when the open note is modified: the
\* note's content is encrypted under the cached key and stored; a failure is
\* logged and the stored envelope stays
save_current_note(modified, content, rndNonce) ==
    LET r == encrypt_result(content_to_encrypt(content), <<>>, 0, rndNonce)
    IN  blob' = IF modified /\ r.ok THEN Some(r.env) ELSE blob

\* MainWindow._lock_application (the Lock action, or the auto-lock timer)
lock_application(modified, content, rndNonce) ==
    IF ~is_locked
    THEN /\ save_current_note(modified, content, rndNonce)
         /\ is_locked' = TRUE
         /\ clear_cached_key
         /\ wiped' = TRUE
    ELSE UNCHANGED <<blob, is_locked, cached_key, cached_salt, keyless, wiped>>

\* MainWindow._unlock_application
unlock_application ==
    /\ is_locked' = FALSE
    /\ UNCHANGED <<blob, cached_key, cached_salt, keyless, wiped>>

LockApplication ==
    /\ phase = "main"
    /\ \E modified \in BOOLEAN, content \in Plaintexts, rndNonce \in Nonces :
           lock_application(modified, content, rndNonce)
    /\ ret' = [op |-> "lock"]
    /\ UNCHANGED <<now, authVars, phase, is_authenticated, sideVars>>

\* MainWindow._toggle_lock
ToggleLock ==
    /\ phase = "main"
    /\ IF is_locked
       THEN unlock_application
       ELSE \E modified \in BOOLEAN, content \in Plaintexts, rndNonce \in Nonces :
                lock_application(modified, content, rndNonce)
    /\ ret' = [op |-> "toggle_lock"]
    /\ UNCHANGED <<now, authVars, phase, is_authenticated, sideVars>>

\* MainWindow.closeEvent
CloseEvent ==
    /\ phase = "main"
    /\ \E modified \in BOOLEAN, content \in Plaintexts, rndNonce \in Nonces :
           save_current_note(modified, content, rndNonce)
    /\ clear_cached_key
    /\ wiped' = TRUE
    /\ phase' = "closed"
    /\ ret' = [op |-> "close"]
    /\ UNCHANGED <<now, authVars, is_authenticated, is_locked, sideVars>>

\* NoteController: a field is encrypted / decrypted without a password
ControllerEncrypt ==
    /\ phase = "main"
    /\ \E content \in Plaintexts, rndNonce \in Nonces :
           encrypt(content_to_encrypt(content), <<>>, 0, rndNonce)
    /\ UNCHANGED <<now, authVars, appVars, sideVars>>

ControllerDecrypt ==
    /\ phase = "main"
    /\ blob /= None
    /\ decrypt(Get(blob), <<>>)
    /\ UNCHANGED <<now, authVars, appVars, sideVars>>

(* ------------------------- models/note.py Note ------------------------- *)
\* Note(): the defaults of the dataclass
new_note == [content |-> <<>>, word_count |-> 0, char_count |-> 0,
             has_images |-> FALSE, has_checkboxes |-> FALSE]

\* len(content.split()): the number of maximal runs of non-whitespace
word_count(content) ==
    Cardinality({i \in 1..Len(content) :
                    /\ content[i] \notin Whitespace
                    /\ (i = 1 \/ content[i - 1] \in Whitespace)})

ImageMark == <<"!", "[">>
CheckboxOpen == <<"-", " ", "[", " ", "]">>
CheckboxDone == <<"-", " ", "[", "x", "]">>
CheckboxDoneUpper == <<"-", " ", "[", "X", "]">>

\* Note.update_metadata: nothing but updated_at is written when the content
\* is empty
update_metadata(note) ==
    IF note.content /= <<>>
    THEN [note EXCEPT !.word_count = word_count(note.content),
                      !.char_count = Len(note.content),
                      !.has_images = Contains(note.content, ImageMark),
                      !.has_checkboxes = Contains(note.content, CheckboxOpen)
                                         \/ Contains(note.content, CheckboxDone)]
    ELSE note

\* Note.set_content
set_content(note, content) ==
    [content |-> content,
     has_images |-> note.has_images,
     word_count |-> IF content /= <<>> THEN word_count(content) ELSE 0,
     char_count |-> Len(content),
     has_checkboxes |-> \/ Contains(content, CheckboxOpen)
                        \/ Contains(content, CheckboxDone)
                        \/ Contains(content, CheckboxDoneUpper)]

\* contents given to the Note object: none, one line, or two lines
MetaLines == {<<"a">>, <<"a", " ", "b">>, <<"[", " ", "]">>, CheckboxOpen, CheckboxDone, CheckboxDoneUpper,
              ImageMark}
MetaContents ==
    {<<>>} \cup MetaLines \cup {l1 \o <<"\n">> \o l2 : l1 \in MetaLines, l2 \in MetaLines}

\* the content is assigned and update_metadata called
UpdateMetadata ==
    /\ \E content \in MetaContents :
           /\ current_note' = update_metadata([current_note EXCEPT !.content = content])
           /\ ret' = [op |-> "update_metadata", content |-> content]
    /\ UNCHANGED <<now, authVars, encVars, appVars, candidate, legacyVars, storeVars>>

SetContent ==
    /\ \E content \in MetaContents :
           /\ current_note' = set_content(current_note, content)
           /\ ret' = [op |-> "set_content", content |-> content]
    /\ UNCHANGED <<now, authVars, encVars, appVars, candidate, legacyVars, storeVars>>

(* ------------------------------ the store ----------------------------- *)
\* ids uuid4 can return for a notebook / for a note
NotebookIds == 1..MaxNotebooks
NoteIds == 1..MaxNotes

NotebookNames == {"My Notes", "New Notebook"}

\* a table without the row id
\* uuid.uuid4() for a new row: an id no row of the table has; the ids are
\* interchangeable, and the least unused one stands for all
fresh_ids(table, ids) ==
    {id \in ids \ DOMAIN table : \A other \in ids \ DOMAIN table : id <= other}

RemoveRow(table, id) == [i \in DOMAIN table \ {id} |-> table[i]]

\* Database.execute, as the controllers use it: one statement in one
\* transaction (Database.get_connection commits on exit and rolls back on an
\* exception); when the statement fails the table stays as it was and the
\* exception reaches the caller
execute(fail, after, before) ==
    IF fail THEN [ok |-> FALSE, table |-> before] ELSE [ok |-> TRUE, table |-> after]

\* Database.query_one / query_all with a WHERE clause: the ids of the rows
\* selected; where[id] says whether the clause holds of row id
query_all(table, where) ==
    {id \in DOMAIN table : where[id]}

(* ------------- controllers/notebook_controller.py NotebookController --- *)
\* SELECT * FROM notebooks WHERE is_default = 1
is_default_row(row) == row.is_default
default_notebooks ==
    query_all(notebooks, [id \in DOMAIN notebooks |-> is_default_row(notebooks[id])])

\* Notebook.create_new(name): a fresh id, is_default False
create_new_notebook(name) ==
    [name |-> name, parent_id |-> None, color |-> None, icon |-> "notebook",
     is_default |-> FALSE, sort_order |-> 0]

\* Notebook.from_dict(dict(row)): sort_order is read from the key
\* 'sort_number', which no row has, so it gets the default of data.get
from_dict(data) ==
    [name |-> data.name, parent_id |-> data.parent_id, color |-> data.color,
     icon |-> data.icon, is_default |-> data.is_default, sort_order |-> 0]

\* NotebookController.get_notebook
get_notebook(notebook_id) ==
    IF notebook_id \in DOMAIN notebooks THEN Some(from_dict(notebooks[notebook_id]))
    ELSE None

\* NotebookController.create_notebook: the INSERT
create_notebook(id, notebook, fail) ==
    LET r == execute(fail, (id :> notebook) @@ notebooks, notebooks)
    IN  /\ notebooks' = r.table
        /\ ret' = [op |-> "create_notebook", id |-> id, ok |-> r.ok]

\* NotebookController._ensure_default_notebook, run when the controller is
\* constructed
ensure_default_notebook(id, fail) ==
    IF default_notebooks = {}
    THEN create_notebook(id, [create_new_notebook("My Notes") EXCEPT !.is_default = TRUE],
                         fail)
    ELSE /\ ret' = [op |-> "ensure_default_notebook"]
         /\ UNCHANGED notebooks

\* NotebookController.update_notebook on a table: UPDATE notebooks SET ...
\* WHERE id = ?; an exception is logged and False returned
update_notebook(table, id, notebook, fail) ==
    execute(fail, [i \in DOMAIN table |-> IF i = id THEN notebook ELSE table[i]], table)

\* NotebookController.rename_notebook
rename_notebook(notebook_id, new_name, fail) ==
    IF get_notebook(notebook_id) = None
    THEN /\ ret' = [op |-> "rename_notebook", id |-> notebook_id, ok |-> FALSE]
         /\ UNCHANGED notebooks
    ELSE LET r == update_notebook(notebooks, notebook_id,
                                  [Get(get_notebook(notebook_id)) EXCEPT !.name = new_name],
                                  fail)
         IN  /\ notebooks' = r.table
             /\ ret' = [op |-> "rename_notebook", id |-> notebook_id, ok |-> r.ok]

\* the first loop of set_default_notebook: every default notebook is updated
\* with is_default False, each in a call of update_notebook whose result is
\* dropped; failClear holds the notebooks whose update fails
clear_existing_default(failClear) ==
    [id \in DOMAIN notebooks |->
        IF notebooks[id].is_default
        THEN update_notebook(notebooks, id,
                             [from_dict(notebooks[id]) EXCEPT !.is_default = FALSE],
                             id \in failClear).table[id]
        ELSE notebooks[id]]

\* NotebookController.set_default_notebook
set_default_notebook(notebook_id, failClear, failSet) ==
    LET cleared == clear_existing_default(failClear)
        existed == notebook_id \in DOMAIN notebooks
        r == update_notebook(cleared, notebook_id,
                             [from_dict(cleared[notebook_id]) EXCEPT !.is_default = TRUE],
                             failSet)
    IN  /\ notebooks' = IF existed THEN r.table ELSE cleared
        /\ ret' = [op |-> "set_default_notebook", id |-> notebook_id,
                   ok |-> existed /\ r.ok,
                   existed |-> existed,
                   failed |-> (failClear \cap default_notebooks /= {})
                              \/ (failSet /\ existed),
                   defaultsBefore |-> Cardinality(default_notebooks)]

notes_of_deleted_notebook_trash(notebook_id, move_notes_to) ==
    [n \in DOMAIN notes |->
        IF notes[n].notebook_id /= Some(notebook_id) THEN notes[n]
        ELSE [notes[n] EXCEPT !.is_trashed = TRUE]]
notes_of_deleted_notebook(notebook_id, move_notes_to) ==
    [n \in DOMAIN notes |->
        IF notes[n].notebook_id /= Some(notebook_id) THEN notes[n]
        ELSE IF move_notes_to /= None
             THEN [notes[n] EXCEPT !.notebook_id = move_notes_to]
             ELSE [notes[n] EXCEPT !.is_trashed = TRUE]]

refuses_default_never(notebook_id) == FALSE
\* delete_notebook: the notebook exists and is the default one
refuses_default(notebook_id) ==
    get_notebook(notebook_id) /= None /\ Get(get_notebook(notebook_id)).is_default

\* NotebookController.delete_notebook: failNotes / failDelete say whether the
\* UPDATE of the notes / the DELETE of the notebook fails
delete_notebook(notebook_id, move_notes_to, failNotes, failDelete) ==
    LET r1 == execute(failNotes, notes_of_deleted_notebook(notebook_id, move_notes_to),
                      notes)
        r2 == execute(failDelete, RemoveRow(notebooks, notebook_id), notebooks)
        info == [op |-> "delete_notebook", id |-> notebook_id, move |-> move_notes_to,
                 existed |-> notebook_id \in DOMAIN notebooks,
                 wasDefault |-> notebook_id \in default_notebooks,
                 affected |-> {n \in DOMAIN notes :
                                  notes[n].notebook_id = Some(notebook_id)}]
    IN  IF refuses_default(notebook_id)
        THEN /\ ret' = info @@ [ok |-> FALSE]
             /\ UNCHANGED <<notebooks, notes>>
        ELSE /\ notes' = r1.table
             /\ notebooks' = IF r1.ok THEN r2.table ELSE notebooks
             /\ ret' = info @@ [ok |-> r1.ok /\ r2.ok]

(* --------------- controllers/note_controller.py NoteController --------- *)
\* titles, contents and search queries handed to the controller
NoteTitles == {<<"H","i">>, <<>>}
NoteContents == {<<>>, <<"n","o">>}
Queries == {<<"h","I">>, <<"n","o">>, <<"z">>}

\* nonces drawn while a note field is encrypted; decrypt does not look at the
\* nonce, so one value stands for all
FieldNonces == {1}

UntitledNote == <<"U","n","t","i","t","l","e","d"," ","N","o","t","e">>

\* note.title if note.title else "Untitled Note"
title_to_encrypt(title) == IF title /= <<>> THEN title ELSE UntitledNote

\* Note.update_metadata(content): the derived metadata, recomputed from the
\* plaintext
character_count(content) == Len(content)

\* EncryptionService.encrypt / decrypt as the controller calls them: no password
encrypt_field(plaintext, rndNonce) == encrypt_result(plaintext, <<>>, 0, rndNonce)
decrypt_field(data) == decrypt_result(data, <<>>)

\* NoteController.create_note: content if content else " "
new_content(content) == IF content /= <<>> THEN content ELSE <<" ">>

\* the row create_note inserts and update_note writes
note_row(title_env, content_env, note, content) ==
    [title |-> title_env, content |-> content_env, notebook_id |-> note.notebook_id,
     is_trashed |-> note.is_trashed, is_favorite |-> note.is_favorite,
     modified_at |-> now, character_count |-> character_count(content)]

\* Note.create_new(title, notebook_id)
create_new_note(title, notebook_id) ==
    [title |-> title, notebook_id |-> notebook_id,
     is_trashed |-> FALSE, is_favorite |-> FALSE]

\* NoteController.create_note: both fields are encrypted, then one INSERT; an
\* exception is logged and raised again
create_note_insert_first(id, title, notebook_id, content, nt, nc, fail) ==
    LET note == create_new_note(title, notebook_id)
        et == encrypt_field(title_to_encrypt(title), nt)
        ec == encrypt_field(new_content(content), nc)
        blank == [len |-> 0]
        r == execute(fail, (id :> note_row(IF et.ok THEN et.env ELSE blank,
                                           IF ec.ok THEN ec.env ELSE blank,
                                           note, content)) @@ notes, notes)
    IN  /\ notes' = r.table
        /\ ret' = [op |-> "create_note", id |-> id, encrypted |-> et.ok /\ ec.ok,
                   ok |-> et.ok /\ ec.ok /\ r.ok]
create_note(id, title, notebook_id, content, nt, nc, fail) ==
    LET note == create_new_note(title, notebook_id)
        et == encrypt_field(title_to_encrypt(title), nt)
        ec == encrypt_field(new_content(content), nc)
    IN  IF ~et.ok \/ ~ec.ok
        THEN /\ ret' = [op |-> "create_note", id |-> id, encrypted |-> FALSE,
                        ok |-> FALSE]
             /\ UNCHANGED notes
        ELSE LET r == execute(fail, (id :> note_row(et.env, ec.env, note, content))
                                     @@ notes, notes)
             IN  /\ notes' = r.table
                 /\ ret' = [op |-> "create_note", id |-> id, encrypted |-> TRUE,
                            ok |-> r.ok]

\* SELECT * FROM notes WHERE id = ? AND is_trashed = 0
not_trashed(row) == ~row.is_trashed
is_trashed(row) == row.is_trashed

\* the trashed notes, and the others
trashed_notes == query_all(notes, [n \in DOMAIN notes |-> is_trashed(notes[n])])
live_notes == query_all(notes, [n \in DOMAIN notes |-> not_trashed(notes[n])])

\* the row of get_note decrypts
readable(row) == decrypt_field(row.title).ok /\ decrypt_field(row.content).ok

\* NoteController.get_note: the note with title and content decrypted, or None
\* (no such row, a trashed row, or an exception, which is logged)
get_note(note_id) ==
    IF note_id \notin live_notes THEN None
    ELSE LET row == notes[note_id]
             t == decrypt_field(row.title)
             c == decrypt_field(row.content)
         IN  IF ~t.ok \/ ~c.ok THEN None
             ELSE Some([id |-> note_id, title |-> t.value,
                        content |-> IF c.value = <<" ">> THEN <<>> ELSE c.value,
                        notebook_id |-> row.notebook_id,
                        is_trashed |-> row.is_trashed,
                        is_favorite |-> row.is_favorite])

\* NoteController.update_note: both fields are encrypted, then one UPDATE
\* ... WHERE id = ?; an exception is logged and False returned
update_note(note, nt, nc, fail) ==
    LET et == encrypt_field(title_to_encrypt(note.title), nt)
        ec == encrypt_field(content_to_encrypt(note.content), nc)
        info == [op |-> "update_note", id |-> note.id,
                 existed |-> note.id \in DOMAIN notes]
    IN  IF ~et.ok \/ ~ec.ok
        THEN /\ ret' = info @@ [encrypted |-> FALSE, ok |-> FALSE]
             /\ UNCHANGED notes
        ELSE LET r == execute(fail,
                              [n \in DOMAIN notes |->
                                  IF n = note.id
                                  THEN note_row(et.env, ec.env, note, note.content)
                                  ELSE notes[n]],
                              notes)
             IN  /\ notes' = r.table
                 /\ ret' = info @@ [encrypted |-> TRUE, ok |-> r.ok]

\* the UPDATE of a soft delete
soft_delete_toggle(note_id) ==
    [n \in DOMAIN notes |->
        IF n = note_id
        THEN [notes[n] EXCEPT !.is_trashed = ~@, !.modified_at = now]
        ELSE notes[n]]
soft_delete(note_id) ==
    [n \in DOMAIN notes |->
        IF n = note_id
        THEN [notes[n] EXCEPT !.is_trashed = TRUE, !.modified_at = now]
        ELSE notes[n]]

\* NoteController.delete_note
delete_note(note_id, permanent, fail) ==
    LET r == execute(fail,
                     IF permanent THEN RemoveRow(notes, note_id)
                     ELSE soft_delete(note_id),
                     notes)
    IN  /\ notes' = r.table
        /\ ret' = [op |-> "delete_note", id |-> note_id, permanent |-> permanent,
                   existed |-> note_id \in DOMAIN notes,
                   wasTrashed |-> note_id \in trashed_notes,
                   modifiedBefore |-> IF note_id \in DOMAIN notes
                                      THEN Some(notes[note_id].modified_at) ELSE None,
                   failed |-> fail, ok |-> r.ok]

\* the UPDATE of restore_note
restored_all(note_id) ==
    [n \in DOMAIN notes |-> [notes[n] EXCEPT !.is_trashed = FALSE, !.modified_at = now]]
restored(note_id) ==
    [n \in DOMAIN notes |->
        IF n = note_id
        THEN [notes[n] EXCEPT !.is_trashed = FALSE, !.modified_at = now]
        ELSE notes[n]]

\* NoteController.restore_note
restore_note(note_id, fail) ==
    LET r == execute(fail, restored(note_id), notes)
    IN  /\ notes' = r.table
        /\ ret' = [op |-> "restore_note", id |-> note_id,
                   existed |-> note_id \in DOMAIN notes,
                   wasTrashed |-> note_id \in trashed_notes,
                   modifiedBefore |-> IF note_id \in DOMAIN notes
                                      THEN Some(notes[note_id].modified_at) ELSE None,
                   failed |-> fail, ok |-> r.ok]

\* the loop of a listing: every title is decrypted, and one exception makes the
\* listing return []
list_notes(ids) ==
    IF \A n \in ids : decrypt_field(notes[n].title).ok THEN ids ELSE {}

\* NoteController.get_all_notes(include_trashed)
get_all_notes_unfiltered(include_trashed) == list_notes(DOMAIN notes)
get_all_notes(include_trashed) ==
    list_notes(query_all(notes, [n \in DOMAIN notes |->
                                 include_trashed \/ not_trashed(notes[n])]))

\* NoteController.get_notes_by_notebook
get_notes_by_notebook(notebook_id) ==
    list_notes(query_all(notes, [n \in DOMAIN notes |->
                                 notes[n].notebook_id = Some(notebook_id)
                                 /\ not_trashed(notes[n])]))

\* NoteController.get_favorite_notes
get_favorite_notes ==
    list_notes(query_all(notes, [n \in DOMAIN notes |->
                                 notes[n].is_favorite /\ not_trashed(notes[n])]))

\* NoteController.get_trashed_notes
get_trashed_notes == list_notes(trashed_notes)

\* query_lower in full_note.title.lower() or query_lower in full_note.content.lower()
matches(query, note) ==
    Contains(lower(note.title), lower(query)) \/ Contains(lower(note.content), lower(query))

\* NoteController.search_notes: a note get_note returns None for is passed over
search_notes(query) ==
    {n \in get_all_notes(FALSE) : get_note(n) /= None /\ matches(query, Get(get_note(n)))}

\* NoteController.get_note_count
get_note_count == Cardinality(live_notes)

\* NoteController.toggle_favorite
toggle_favorite(note_id, nt, nc, fail) ==
    IF get_note(note_id) = None
    THEN /\ ret' = [op |-> "toggle_favorite", id |-> note_id, ok |-> FALSE]
         /\ UNCHANGED notes
    ELSE update_note([Get(get_note(note_id)) EXCEPT !.is_favorite = ~@], nt, nc, fail)

(* ------------------------ calls on the controllers --------------------- *)
sessionVars == <<now, authVars, encVars, appVars, inputVars, legacyVars>>

MoveTargets == {None} \cup {Some(id) : id \in NotebookIds}

\* NotebookController(): the constructor, run at every launch
NewNotebookController ==
    /\ \E id \in fresh_ids(notebooks, NotebookIds), fail \in BOOLEAN :
           ensure_default_notebook(id, fail)
    /\ UNCHANGED <<notes, sessionVars>>

RenameNotebook ==
    /\ \E notebook_id \in NotebookIds, new_name \in NotebookNames, fail \in BOOLEAN :
           rename_notebook(notebook_id, new_name, fail)
    /\ UNCHANGED <<notes, sessionVars>>

CreateNotebook ==
    /\ \E id \in fresh_ids(notebooks, NotebookIds), fail \in BOOLEAN :
           create_notebook(id, create_new_notebook("New Notebook"), fail)
    /\ UNCHANGED <<notes, sessionVars>>

\* create_notebook(notebook=...): the caller hands over a Notebook object
SortOrders == {0, 1, 2}
Colors == {None, Some("#4A9EFF")}
NotebookObjects ==
    {[create_new_notebook("New Notebook") EXCEPT
          !.parent_id = parent_id, !.color = color, !.sort_order = sort_order] :
     parent_id \in {None, Some(1)}, color \in Colors, sort_order \in SortOrders}

CreateNotebookObject ==
    /\ \E id \in fresh_ids(notebooks, NotebookIds), notebook \in NotebookObjects :
           create_notebook(id, notebook, FALSE)
    /\ UNCHANGED <<notes, sessionVars>>

SetDefaultNotebook ==
    /\ \E notebook_id \in NotebookIds, failClear \in SUBSET NotebookIds,
          failSet \in BOOLEAN :
           set_default_notebook(notebook_id, failClear, failSet)
    /\ UNCHANGED <<notes, sessionVars>>

DeleteNotebook ==
    /\ \E notebook_id \in NotebookIds, move_notes_to \in MoveTargets,
          failNotes \in BOOLEAN, failDelete \in BOOLEAN :
           delete_notebook(notebook_id, move_notes_to, failNotes, failDelete)
    /\ UNCHANGED sessionVars

\* a note created in one of the notebooks
CreateNoteInNotebook ==
    /\ \E id \in fresh_ids(notes, NoteIds), notebook_id \in DOMAIN notebooks,
          nt \in FieldNonces, nc \in FieldNonces :
           create_note(id, <<"H","i">>, Some(notebook_id), <<>>, nt, nc, FALSE)
    /\ UNCHANGED <<notebooks, sessionVars>>

CreateNote ==
    /\ \E id \in fresh_ids(notes, NoteIds), title \in NoteTitles,
          content \in NoteContents, nt \in FieldNonces, nc \in FieldNonces,
          fail \in BOOLEAN :
           create_note(id, title, None, content, nt, nc, fail)
    /\ UNCHANGED <<notebooks, sessionVars>>

\* the note object the editor holds: the stored metadata of the note, or that
\* of a new note when the row is gone, with the edited title and content
held_note(id, title, content) ==
    [id |-> id, title |-> title, content |-> content,
     notebook_id |-> IF id \in DOMAIN notes THEN notes[id].notebook_id ELSE None,
     is_trashed |-> id \in DOMAIN notes /\ notes[id].is_trashed,
     is_favorite |-> id \in DOMAIN notes /\ notes[id].is_favorite]

\* the editor saves the note it holds
UpdateNote ==
    /\ \E id \in NoteIds, title \in NoteTitles, content \in NoteContents,
          nt \in FieldNonces, nc \in FieldNonces, fail \in BOOLEAN :
           update_note(held_note(id, title, content), nt, nc, fail)
    /\ UNCHANGED <<notebooks, sessionVars>>

ToggleFavorite ==
    /\ \E id \in NoteIds, nt \in FieldNonces, nc \in FieldNonces :
           toggle_favorite(id, nt, nc, FALSE)
    /\ UNCHANGED <<notebooks, sessionVars>>

DeleteNote ==
    /\ \E id \in NoteIds, permanent \in BOOLEAN, fail \in BOOLEAN :
           delete_note(id, permanent, fail)
    /\ UNCHANGED <<notebooks, sessionVars>>

RestoreNote ==
    /\ \E id \in NoteIds, fail \in BOOLEAN : restore_note(id, fail)
    /\ UNCHANGED <<notebooks, sessionVars>>

\* time passes while the main window is open
NoteTick ==
    /\ now + TickStep <= MaxNoteTime
    /\ now' = now + TickStep
    /\ ret' = [op |-> "tick"]
    /\ UNCHANGED <<authVars, encVars, appVars, sideVars>>

GetAllNotes ==
    /\ \E include_trashed \in BOOLEAN :
           ret' = [op |-> "get_all_notes", include_trashed |-> include_trashed,
                   result |-> get_all_notes(include_trashed)]
    /\ UNCHANGED <<storeVars, sessionVars>>

GetNotesByNotebook ==
    /\ \E notebook_id \in NotebookIds :
           ret' = [op |-> "get_notes_by_notebook", notebook_id |-> notebook_id,
                   result |-> get_notes_by_notebook(notebook_id)]
    /\ UNCHANGED <<storeVars, sessionVars>>

GetFavoriteNotes ==
    /\ ret' = [op |-> "get_favorite_notes", result |-> get_favorite_notes]
    /\ UNCHANGED <<storeVars, sessionVars>>

GetTrashedNotes ==
    /\ ret' = [op |-> "get_trashed_notes", result |-> get_trashed_notes]
    /\ UNCHANGED <<storeVars, sessionVars>>

GetNoteCount ==
    /\ ret' = [op |-> "get_note_count", count |-> get_note_count]
    /\ UNCHANGED <<storeVars, sessionVars>>

\* contents under test: every string of at most MaxContentLen characters
ContentChars == {" ", "\n", "a"}
ContentInputs == UNION {[1..n -> ContentChars] : n \in 0..MaxContentLen}

\* create_note with the content under test
CreateWithContent ==
    /\ \E id \in fresh_ids(notes, NoteIds), nt \in FieldNonces, nc \in FieldNonces :
           create_note(id, <<"H","i">>, None, candidate, nt, nc, FALSE)
    /\ UNCHANGED <<notebooks, sessionVars>>

\* update_note of a stored note with the content under test
UpdateWithContent ==
    /\ \E id \in DOMAIN notes, nt \in FieldNonces, nc \in FieldNonces :
           update_note(held_note(id, <<"H","i">>, candidate), nt, nc, FALSE)
    /\ UNCHANGED <<notebooks, sessionVars>>

GetNote ==
    /\ \E id \in NoteIds :
           ret' = [op |-> "get_note", id |-> id, result |-> get_note(id)]
    /\ UNCHANGED <<storeVars, sessionVars>>

SearchNotes ==
    /\ \E query \in Queries :
           ret' = [op |-> "search_notes", query |-> query, result |-> search_notes(query)]
    /\ UNCHANGED <<storeVars, sessionVars>>

\* MainWindow._lock_application with no note modified, then
\* _unlock_application: the cached key is cleared, and unlocking caches none
LockUnlock ==
    /\ clear_cached_key
    /\ is_locked' = FALSE
    /\ wiped' = TRUE
    /\ ret' = [op |-> "lock_unlock"]
    /\ UNCHANGED <<now, authVars, phase, is_authenticated, blob, sideVars>>

\* the window is closed, the application launched again and the login dialog
\* accepted with the password entered: verify_master_password derives a key
\* from it and on_auth_success caches that key
login_again ==
    /\ \E password \in {PwCorrect, PwOther} :
           LET key == derive_key(password, get_stored_salt, 0).key
           IN  /\ encryption_key' = Some(key)
               /\ cached_key' = Some(key)
               /\ ret' = [op |-> "login", pw |-> password]
    /\ cached_salt' = get_stored_salt
    /\ keyless' = FALSE
    /\ wiped' = FALSE
    /\ UNCHANGED <<auth_file, failed_attempts, lockout_until, setupPassword,
                   streak, lastFailAt, phase, is_authenticated, is_locked, blob,
                   sideVars>>

Relogin ==
    /\ login_again
    /\ UNCHANGED now

\* the same, with the time the restart took
RestartTime == TickStep \div 2
LaterLogin ==
    /\ now + RestartTime <= MaxNoteTime
    /\ now' = now + RestartTime
    /\ login_again

(* --------------------------- specifications --------------------------- *)
InitMemory ==
    /\ now = 0
    /\ auth_file = None
    /\ failed_attempts = 0
    /\ lockout_until = None
    /\ encryption_key = None
    /\ setupPassword = None
    /\ streak = 0
    /\ lastFailAt = 0
    /\ cached_key = None
    /\ cached_salt = None
    /\ blob = None
    /\ keyless = TRUE
    /\ phase = "start"
    /\ is_authenticated = FALSE
    /\ is_locked = FALSE
    /\ wiped = FALSE
    /\ legacy_auth_file = None
    /\ legacy_failed_attempts = 0
    /\ legacy_lockout_until = 0
    /\ notebooks = (1 :> [create_new_notebook("My Notes") EXCEPT !.is_default = TRUE])
    /\ notes = <<>>
    /\ current_note = new_note
    /\ ret = [op |-> "init"]

Init ==
    /\ InitMemory
    /\ candidate = <<>>

\* the authentication manager driven through its methods
AuthNext ==
    \/ SetupMasterPassword
    \/ VerifyMasterPassword
    \/ Tick

AuthSpec == Init /\ [][AuthNext]_vars

\* the encryption service driven through its methods
CryptoNext ==
    \/ CacheKey
    \/ ClearCachedKey
    \/ Encrypt
    \/ Decrypt
    \/ DecryptShort

CryptoSpec == Init /\ [][CryptoNext]_vars

\* setup on an uninitialized manager, over the candidate passwords
PwNext ==
    \/ FirstRunSetup
    \/ LegacyFirstRunSetup

PwInit ==
    /\ InitMemory
    /\ candidate \in PasswordInputs

PwSpec == PwInit /\ [][PwNext]_vars

\* the manager of core/auth.py driven through its methods
LegacyNext ==
    \/ LegacySetupPassword
    \/ LegacyVerifyPassword
    \/ Tick

LegacySpec == Init /\ [][LegacyNext]_vars

\* the application as TMApp.run drives it
Next ==
    \/ RunFirstRun
    \/ RunReturning
    \/ AttemptLogin
    \/ ExitApplication
    \/ LockApplication
    \/ ToggleLock
    \/ CloseEvent
    \/ Relaunch
    \/ ControllerEncrypt
    \/ ControllerDecrypt

Spec == Init /\ [][Next]_vars

\* the main window open and unlocked: the state after a first run that set up
\* PwCorrect and a login with it; the notebook controller has created "My Notes"
SessionInit ==
    /\ now = 0
    /\ auth_file = Some([salt |-> 1])
    /\ failed_attempts = 0
    /\ lockout_until = None
    /\ encryption_key = Some(Argon2id(PwCorrect, 1))
    /\ setupPassword = Some(PwCorrect)
    /\ streak = 0
    /\ lastFailAt = 0
    /\ cached_key = Some(Argon2id(PwCorrect, 1))
    /\ cached_salt = Some(1)
    /\ blob = None
    /\ keyless = FALSE
    /\ phase = "main"
    /\ is_authenticated = TRUE
    /\ is_locked = FALSE
    /\ wiped = FALSE
    /\ candidate = <<>>
    /\ legacy_auth_file = None
    /\ legacy_failed_attempts = 0
    /\ legacy_lockout_until = 0
    /\ notebooks = (1 :> [create_new_notebook("My Notes") EXCEPT !.is_default = TRUE])
    /\ notes = <<>>
    /\ current_note = new_note
    /\ ret = [op |-> "init"]

\* the default notebook: launches, new notebooks and set_default_notebook
DefaultNext ==
    \/ NewNotebookController
    \/ CreateNotebook
    \/ RenameNotebook
    \/ SetDefaultNotebook

DefaultSpec == SessionInit /\ [][DefaultNext]_vars

\* notebooks with notes in them, created and deleted
NotebookNext ==
    \/ CreateNotebook
    \/ CreateNoteInNotebook
    \/ DeleteNotebook

NotebookSpec == SessionInit /\ [][NotebookNext]_vars

\* notebooks and their notes: notes created, trashed and restored while
\* notebooks are created and deleted
IntegrityNext ==
    \/ CreateNotebook
    \/ CreateNoteInNotebook
    \/ DeleteNote
    \/ RestoreNote
    \/ DeleteNotebook

IntegritySpec == SessionInit /\ [][IntegrityNext]_vars

\* notebooks inserted as objects and renamed
RenameNext ==
    \/ CreateNotebookObject
    \/ RenameNotebook

RenameSpec == SessionInit /\ [][RenameNext]_vars

\* the note controller: notes created, starred, trashed, restored, deleted and
\* listed while the session is unlocked
NoteNext ==
    \/ CreateNoteInNotebook
    \/ ToggleFavorite
    \/ DeleteNote
    \/ RestoreNote
    \/ NoteTick
    \/ GetAllNotes
    \/ GetNotesByNotebook
    \/ GetFavoriteNotes
    \/ GetTrashedNotes
    \/ SearchNotes
    \/ GetNote
    \/ GetNoteCount

NoteSpec == SessionInit /\ [][NoteNext]_vars

\* the note controller across locks and logins: notes written and read with
\* the key of the session, with no key, and with the key of another password
RepositoryNext ==
    \/ CreateNote
    \/ UpdateNote
    \/ GetNote
    \/ SearchNotes
    \/ LockUnlock
    \/ Relogin

RepositorySpec == SessionInit /\ [][RepositoryNext]_vars

\* one content string written through both write paths and read back
ContentInit ==
    \E content \in ContentInputs :
        /\ now = 0
        /\ auth_file = Some([salt |-> 1])
        /\ failed_attempts = 0
        /\ lockout_until = None
        /\ encryption_key = Some(Argon2id(PwCorrect, 1))
        /\ setupPassword = Some(PwCorrect)
        /\ streak = 0
        /\ lastFailAt = 0
        /\ cached_key = Some(Argon2id(PwCorrect, 1))
        /\ cached_salt = Some(1)
        /\ blob = None
        /\ keyless = FALSE
        /\ phase = "main"
        /\ is_authenticated = TRUE
        /\ is_locked = FALSE
        /\ wiped = FALSE
        /\ candidate = content
        /\ legacy_auth_file = None
        /\ legacy_failed_attempts = 0
        /\ legacy_lockout_until = 0
        /\ notebooks = (1 :> [create_new_notebook("My Notes") EXCEPT !.is_default = TRUE])
        /\ notes = <<>>
        /\ current_note = new_note
        /\ ret = [op |-> "init"]

ContentNext ==
    \/ CreateWithContent
    \/ UpdateWithContent
    \/ GetNote

ContentSpec == ContentInit /\ [][ContentNext]_vars

\* notes written in one session and read in later ones: the window is locked,
\* or closed and the application started again, between the calls
PersistNext ==
    \/ CreateWithContent
    \/ UpdateWithContent
    \/ GetNote
    \/ LockUnlock
    \/ LaterLogin

PersistSpec == ContentInit /\ [][PersistNext]_vars

\* a Note object given one content after another
MetadataNext ==
    \/ UpdateMetadata
    \/ SetContent

MetadataSpec == Init /\ [][MetadataNext]_vars


(* ============================== claims ================================ *)

\* the last call was verify on a manager that has a credential record
VerifyCalled == ret.op = "verify" /\ ret.configured
\* ... and it carried the password the record was set up with
CorrectPassword == setupPassword /= None /\ ret.pw = Get(setupPassword)

\* C1: after exactly MAX_ATTEMPTS consecutive failed verify calls, a verify call
\* made before the unlock timestamp (the time of the last of these failures plus
\* LOCKOUT_DURATION) fails with AccountLocked, returns no key, whatever password
\* it carries, and leaves failed_attempts as it was.
C1_LockoutInvariant ==
    (/\ VerifyCalled
     /\ ret.streakBefore = MAX_ATTEMPTS
     /\ now < ret.lastFailBefore + LOCKOUT_DURATION)
    => /\ ret.outcome = "AccountLocked"
       /\ ret.key = None
       /\ failed_attempts = ret.failedBefore

\* the sixth call carries the correct password and is refused
C1_Witness ==
    /\ VerifyCalled
    /\ CorrectPassword
    /\ ret.streakBefore = MAX_ATTEMPTS
    /\ now < ret.lastFailBefore + LOCKOUT_DURATION
    /\ ret.outcome = "AccountLocked"

\* C2: a verify call made while not locked with a password other than the one
\* given to setup returns no key, caches none, raises AuthenticationError or
\* AccountLockedError and increments failed_attempts by exactly 1.
C2_WrongPasswordRejected ==
    (/\ VerifyCalled
     /\ ~ret.locked
     /\ ~CorrectPassword)
    => /\ ret.outcome \in {"AuthenticationError", "AccountLocked"}
       /\ ret.key = None
       /\ encryption_key = ret.keyBefore
       /\ failed_attempts = ret.failedBefore + 1

\* C3: a verify call with the correct password made when no lockout is pending
\* (none was triggered, or the time is at or past lockout_until) returns the key
\* derived from the stored salt and sets failed_attempts to 0.
C3_LockoutExpiry ==
    (/\ VerifyCalled
     /\ CorrectPassword
     /\ (ret.lockoutBefore = None \/ now >= Get(ret.lockoutBefore)))
    => /\ ret.outcome = "Success"
       /\ ret.key = Some(Argon2id(Get(setupPassword), Get(auth_file).salt))
       /\ encryption_key = ret.key
       /\ failed_attempts = 0

\* the correct password is accepted at the very second the lockout ends
C3_Witness ==
    /\ VerifyCalled
    /\ CorrectPassword
    /\ ret.lockoutBefore /= None
    /\ now = Get(ret.lockoutBefore)
    /\ ret.failedBefore >= MAX_ATTEMPTS
    /\ ret.outcome = "Success"
    /\ failed_attempts = 0

\* C10: once a setup call has stored a salt, no step changes or removes it.
C10_CredentialImmutable ==
    [][auth_file /= None => auth_file' = auth_file]_vars


\* the last call was encrypt / decrypt of a whole envelope (the stored one)
EncryptCalled == ret.op = "encrypt"
DecryptCalled == ret.op = "decrypt" /\ ret.len >= min_length
\* the call had a key to work with: a password, or a cached key and salt
KeyAvailable == ret.pw /= <<>> \/ (cached_key /= None /\ cached_salt /= None)

\* C5: while no key is cached (none was cached yet, or clear_cached_key ran
\* since), every encrypt and decrypt call made without a password fails and
\* returns neither an envelope nor a plaintext.
C5_KeyRequired ==
    (ret.op \in {"encrypt", "decrypt"} /\ ret.pw = <<>> /\ keyless)
    => /\ ~ret.ok
       /\ ret.op = "decrypt" => ret.value = None

\* an envelope sealed under the cached key is refused once the key is cleared
C5_Witness ==
    /\ DecryptCalled
    /\ ret.pw = <<>>
    /\ keyless
    /\ Get(blob).pt = <<"h","i">>
    /\ ~ret.ok

\* C6 as stated: for every plaintext P, the empty string included, and every
\* valid key, encrypt returns an envelope that decrypt under the same key turns
\* back into P (only text that UTF-8 can encode is considered).
C6_RoundTripEveryPlaintext ==
    (EncryptCalled /\ Encodable(ret.pt) /\ KeyAvailable)
    => /\ ret.ok
       /\ decrypt_result(Get(blob), ret.pw) = [ok |-> TRUE, value |-> ret.pt]

\* C6 as amended: encrypt returns an envelope exactly for a non-empty,
\* UTF-8-encodable plaintext with a key available, and decrypt of that envelope
\* under the same password or cached key returns the plaintext; encrypt of
\* the empty string fails.
C6_RoundTrip ==
    EncryptCalled
    => /\ ret.ok <=> (ret.pt /= <<>> /\ Encodable(ret.pt) /\ KeyAvailable)
       /\ ret.ok => decrypt_result(Get(blob), ret.pw) = [ok |-> TRUE, value |-> ret.pt]

\* a single space sealed under the cached key opens to a single space
C6_Witness ==
    /\ EncryptCalled
    /\ ret.ok
    /\ ret.pw = <<>>
    /\ ret.pt = <<" ">>
    /\ decrypt_result(Get(blob), ret.pw).value = <<" ">>

\* the key or password of the last decrypt call is not the one the stored
\* envelope was sealed under; an empty password is no password
WrongKey ==
    \/ ret.pw /= <<>> /\ ret.pw /= Get(blob).key.pw
    \/ ret.pw = <<>> /\ (cached_key /= Some(Get(blob).key)
                          \/ cached_salt /= Some(Get(blob).salt))

C4_KeyWipedOnLock ==
    wiped => /\ cached_key = None
             /\ cached_salt = None
             /\ encryption_key = None

\* what lock() and close do achieve: the encryption service's cache is empty
C4_CacheCleared ==
    wiped => (cached_key = None /\ cached_salt = None)


\* the last call was setup
SetupCalled == ret.op = "setup"

\* the requirements on a password, stated on its characters
MeetsPolicy(password) ==
    /\ Len(password) >= MIN_PASSWORD_LENGTH
    /\ Len(password) <= MAX_PASSWORD_LENGTH
    /\ \E i \in 1..Len(password) : password[i] \in UpperChars
    /\ \E i \in 1..Len(password) : password[i] \in LowerChars
    /\ \E i \in 1..Len(password) : password[i] \in DigitChars
    /\ \E i \in 1..Len(password) : password[i] \in SpecialChars
    /\ \A k \in 1..Len(weak_patterns) : ~Contains(lower(password), weak_patterns[k])

Legacy_SetupValidates ==
    (ret.op = "legacy_setup" /\ ret.ok) => MeetsPolicy(ret.pw)

\* verify_password of core/auth.py compares hashes: outside a lockout, a password
\* other than the stored one is refused and counted
Legacy_WrongPasswordRejected ==
    (/\ ret.op = "legacy_verify"
     /\ ret.stored /= None
     /\ now >= ret.lockoutBefore
     /\ ret.pw /= Get(ret.stored).password_hash.pw)
    => /\ ~ret.ok
       /\ legacy_failed_attempts = ret.failedBefore + 1

\* verify_password of core/auth.py during a lockout: refused whatever the
\* password, the counter untouched
Legacy_LockoutInvariant ==
    (ret.op = "legacy_verify" /\ now < ret.lockoutBefore)
    => /\ ~ret.ok
       /\ ret.message = "Account locked"
       /\ legacy_failed_attempts = ret.failedBefore

(* ------------------------------ notebooks ------------------------------ *)
SetDefaultCalled == ret.op = "set_default_notebook"

\* C11: after set_default_notebook, whatever id it was given and when no
\* statement failed, exactly one notebook is the default
C11_ExactlyOneDefault ==
    (SetDefaultCalled /\ ~ret.failed) => Cardinality(default_notebooks) = 1

\* C12: set_default_notebook on an existing notebook, started with exactly one
\* default, leaves exactly one default notebook in the store, also when one of
\* its statements failed
C12_PromotionAtomic ==
    (SetDefaultCalled /\ ret.existed /\ ret.defaultsBefore = 1)
    => Cardinality(default_notebooks) = 1

C14_DeletePolicy ==
    [][(ret'.op = "delete_notebook" /\ ret'.existed /\ ~ret'.wasDefault /\ ret'.ok)
       => /\ ret'.id \notin DOMAIN notebooks'
          /\ DOMAIN notes' = DOMAIN notes
          /\ \A n \in DOMAIN notes :
                IF notes[n].notebook_id /= Some(ret'.id) THEN notes'[n] = notes[n]
                ELSE IF ret'.move /= None
                     THEN notes'[n] = [notes[n] EXCEPT !.notebook_id = ret'.move]
                     ELSE notes'[n] = [notes[n] EXCEPT !.is_trashed = TRUE]]_vars

\* a notebook holding a note was deleted with another notebook as the target,
\* while a note of a third kind stayed where it was
C14_Witness ==
    /\ ret.op = "delete_notebook"
    /\ ret.existed /\ ~ret.wasDefault /\ ret.ok
    /\ ret.move /= None /\ ret.move /= Some(ret.id)
    /\ ret.affected /= {}
    /\ \A n \in ret.affected : notes[n].notebook_id = ret.move
    /\ DOMAIN notes \ ret.affected /= {}

(* -------------------------------- notes -------------------------------- *)
Trashed == {n \in DOMAIN notes : notes[n].is_trashed}

\* every stored title opens under the cached key
TitlesReadable == \A n \in DOMAIN notes : decrypt_field(notes[n].title).ok

\* C15: no trashed note is in what get_all_notes (by default),
\* get_notes_by_notebook, get_favorite_notes and search_notes return, get_note
\* returns None for it and get_note_count does not count it; get_trashed_notes
\* returns exactly the trashed notes while the titles can be decrypted
C15_TrashExcluded ==
    /\ (ret.op = "get_all_notes" /\ ~ret.include_trashed) => ret.result \cap Trashed = {}
    /\ ret.op \in {"get_notes_by_notebook", "get_favorite_notes", "search_notes"}
       => ret.result \cap Trashed = {}
    /\ (ret.op = "get_note" /\ ret.id \in Trashed) => ret.result = None
    /\ ret.op = "get_note_count" => ret.count = Cardinality(DOMAIN notes \ Trashed)
    /\ (ret.op = "get_trashed_notes" /\ TitlesReadable) => ret.result = Trashed

\* a search found a note while another note, with the same title, is in the trash
C15_Witness ==
    /\ ret.op = "search_notes"
    /\ ret.result /= {}
    /\ Trashed /= {}

\* C16: a soft delete of a note that is already trashed, when the statement
\* does not fail, returns True, leaves the note trashed, sets its modified_at
\* to the time of the call and changes nothing else
C16_TrashIdempotent ==
    [][(ret'.op = "delete_note" /\ ~ret'.permanent /\ ret'.wasTrashed /\ ~ret'.failed)
       => /\ ret'.ok
          /\ notes' = [notes EXCEPT ![ret'.id] = [@ EXCEPT !.modified_at = now]]
          /\ notes'[ret'.id].is_trashed
          /\ notebooks' = notebooks]_vars

\* a trashed note was trashed again, later than it was last modified, next to
\* another note
C16_Witness ==
    /\ ret.op = "delete_note" /\ ~ret.permanent /\ ret.wasTrashed /\ ret.ok
    /\ ret.modifiedBefore /= Some(now)
    /\ notes[ret.id].modified_at = now
    /\ DOMAIN notes /= {ret.id}

\* C17: a soft delete changes is_trashed and modified_at of the note only, and
\* so does restore_note, which leaves the note not trashed; after a permanent
\* delete the row is gone, and restore_note on an id without a row changes
\* nothing
C17_RestoreRoundTrip ==
    [][/\ (ret'.op = "delete_note" /\ ~ret'.permanent /\ ret'.existed /\ ret'.ok)
          => notes' = [notes EXCEPT ![ret'.id] =
                          [@ EXCEPT !.is_trashed = TRUE, !.modified_at = now]]
       /\ (ret'.op = "restore_note" /\ ret'.existed /\ ret'.ok)
          => notes' = [notes EXCEPT ![ret'.id] =
                          [@ EXCEPT !.is_trashed = FALSE, !.modified_at = now]]
       /\ (ret'.op = "delete_note" /\ ret'.permanent /\ ret'.ok)
          => notes' = RemoveRow(notes, ret'.id)
       /\ (ret'.op = "restore_note" /\ ~ret'.existed)
          => notes' = notes]_vars

\* a trashed favorite note was restored, later than it was trashed, while
\* another note stayed in the trash
C17_Witness ==
    /\ ret.op = "restore_note" /\ ret.wasTrashed /\ ret.ok
    /\ ~notes[ret.id].is_trashed
    /\ notes[ret.id].is_favorite
    /\ ret.modifiedBefore /= Some(now)
    /\ Trashed /= {}

(* ------------------------- notes and the session key ------------------- *)
\* the notes get_note can return under the cached key
Readable == {n \in DOMAIN notes \ Trashed : readable(notes[n])}

\* the plaintext of a stored note, as get_note would return it with the right key
Plain(row) ==
    [title |-> row.title.pt,
     content |-> IF row.content.pt = <<" ">> THEN <<>> ELSE row.content.pt]

\* C18: search_notes returns every note that is not trashed, can be decrypted
\* and matches the query, also when another note cannot be decrypted
C18_SearchKeepsMatches ==
    ret.op = "search_notes"
    => \A n \in Readable : matches(ret.query, Plain(notes[n])) => n \in ret.result

\* C19: get_note on a stored, not trashed note that cannot be decrypted does
\* not return what it returns for a note that does not exist
C19_KeyFailureDistinct ==
    (ret.op = "get_note" /\ ret.id \in DOMAIN notes \ Trashed /\ ~readable(notes[ret.id]))
    => ret.result /= None

\* the versions of a note the controller can be given
Versions == {[title |-> title_to_encrypt(title), content |-> content] :
                title \in NoteTitles, content \in NoteContents}

\* the row holds one version: both fields under one key, and the metadata
\* computed from the content that was encrypted
OneVersion(row) ==
    /\ row.title.key = row.content.key
    /\ Plain(row) \in Versions
    /\ row.character_count = character_count(Plain(row).content)

ContentWritten ==
    ret.op \in {"create_note", "update_note"} /\ ret.ok /\ ret.id \in DOMAIN notes

\* C21: create_note and update_note hand the same plaintext to the cipher for
\* the same content: the content itself, or a single space for the empty string
C21_SameSentinel ==
    ContentWritten
    => notes[ret.id].content.pt = (IF candidate = <<>> THEN <<" ">> ELSE candidate)

\* C22: get_note returns the content the note was written with
C22_ContentRoundTrip ==
    (ret.op = "get_note" /\ ret.result /= None) => Get(ret.result).content = candidate

(* ------------------------------ metadata ------------------------------- *)
TaskMarkers == {<<"[", " ", "]">>, <<"[", "x", "]">>, <<"[", "X", "]">>}
HasTaskMarker(content) == \E marker \in TaskMarkers : Contains(content, marker)

\* C23: after the content is changed and the metadata updated, by
\* update_metadata or by set_content, word_count and char_count are the
\* counts of the content and the task flag says whether it holds a task marker
C23_MetadataFresh ==
    ret.op \in {"update_metadata", "set_content"}
    => /\ current_note.word_count = word_count(current_note.content)
       /\ current_note.char_count = Len(current_note.content)
       /\ current_note.has_checkboxes = HasTaskMarker(current_note.content)

(* ------------------------- short input to decrypt --------------------- *)
LengthErrors == {"Encrypted data cannot be empty", "Invalid encrypted data: too short"}

\* C24: decrypt of an input that is empty or shorter than SALT_SIZE +
\* NONCE_SIZE + TAG_SIZE bytes fails with the error of the length check, not
\* with one raised by the key lookup or the tag verification, and leaves the
\* cached key and salt as they were.
C24_ShortInputRejected ==
    [][(ret'.op = "decrypt" /\ ret'.len < SALT_SIZE + NONCE_SIZE + TAG_SIZE) =>
           /\ ~ret'.ok
           /\ ret'.error /= None
           /\ Get(ret'.error) \in LengthErrors
           /\ cached_key' = cached_key
           /\ cached_salt' = cached_salt]_vars

\* a short, non-empty input was refused while a key was cached for the salt
\* its first bytes would be taken for
C24_Witness ==
    /\ ret.op = "decrypt"
    /\ ret.len > 0
    /\ ret.len < SALT_SIZE + NONCE_SIZE + TAG_SIZE
    /\ ~ret.ok
    /\ cached_key /= None
    /\ cached_salt /= None
(* ------------------------- verify during a lockout -------------------- *)
\* C25: a verify made while the account is locked out raises AccountLocked
\* without returning a key, and leaves lockout_until, the failure counter, the
\* manager's encryption key and the service's cached key and salt as they
\* were: an attempt during a lockout does not extend or restart it.
C25_LockedVerifyInert ==
    [][(ret'.op = "verify" /\ ret'.locked) =>
           /\ ret'.outcome = "AccountLocked"
           /\ ret'.key = None
           /\ lockout_until' = lockout_until
           /\ failed_attempts' = failed_attempts
           /\ encryption_key' = encryption_key
           /\ cached_key' = cached_key
           /\ cached_salt' = cached_salt]_vars

\* a verify was refused part-way through a lockout, with a key of an earlier
\* successful verify still held
C25_Witness ==
    /\ ret.op = "verify"
    /\ ret.locked
    /\ ret.outcome = "AccountLocked"
    /\ ret.keyBefore /= None
    /\ ret.lastFailBefore < now
(* ------------------------- the failure counter ------------------------ *)
\* C26: in every reachable state 0 <= failed_attempts <= MAX_ATTEMPTS, and the
\* counter is at MAX_ATTEMPTS only when a lockout has been triggered; a failed
\* attempt made after the lockout has expired does not take it past
\* MAX_ATTEMPTS.
C26_CounterBounded ==
    /\ failed_attempts \in 0..MAX_ATTEMPTS
    /\ failed_attempts = MAX_ATTEMPTS => lockout_until /= None
(* ------------------------- the unlocked window ------------------------ *)
\* C27: while the main window is shown and is_locked is false, the encryption
\* service holds a cached key and salt; the window does not go from locked to
\* unlocked without the key being cached again.
C27_UnlockedHasKey ==
    (phase = "main" /\ ~is_locked) => (cached_key /= None /\ cached_salt /= None)
(* ------------------------- notes and their notebooks ------------------ *)
\* C28: after any sequence of create_note, delete_note, restore_note,
\* create_notebook and delete_notebook (with or without move_notes_to), every
\* note that is not in the trash has notebook_id null or the id of a notebook
\* that exists.
C28_ReferentialIntegrity ==
    \A n \in DOMAIN notes :
        ~notes[n].is_trashed =>
            \/ notes[n].notebook_id = None
            \/ Get(notes[n].notebook_id) \in DOMAIN notebooks
(* ------------------------- notes in later sessions -------------------- *)
\* the password whose verification opened the session that wrote the note
WriterPassword(n) == notes[n].content.key.pw

\* the session was opened by verifying password against the credential record
SessionOf(password) ==
    /\ cached_key /= None
    /\ Get(cached_key).pw = password
    /\ encryption_key = cached_key
    /\ auth_file = Some([salt |-> Get(cached_salt)])

Attributes(row) ==
    [parent_id |-> row.parent_id, color |-> row.color, icon |-> row.icon,
     is_default |-> row.is_default, sort_order |-> row.sort_order]

\* C30: rename_notebook changes the name (and modified_at) of the named
\* notebook only: its parent_id, color, icon, is_default and sort_order are the
\* same after the call as before it, no other notebook changes, and no
\* notebook appears or disappears.
C30_RenameFrame ==
    [][ret'.op = "rename_notebook" =>
           /\ DOMAIN notebooks' = DOMAIN notebooks
           /\ \A id \in DOMAIN notebooks :
                  /\ Attributes(notebooks'[id]) = Attributes(notebooks[id])
                  /\ id /= ret'.id => notebooks'[id] = notebooks[id]]_vars
====
